---- MODULE Spec2Model ----
(***************************************************************************)
(* Reader-preferring read/write lock (rwlock.py): RWLock with its _rlock   *)
(* (ReadGuard) and _wlock (WriteGuard) handles, the Lockable context       *)
(* manager and the write_element demo loop.  Every statement that touches  *)
(* shared state is one step; pc values carry the source line about to run. *)
(***************************************************************************)
EXTENDS Integers, Sequences, FiniteSets, TLC

\* ------------------------------------------------------------------ bounds
NumReaders == 2
NumWriters == 2
\* acquisitions of held ReadGuards that a run may pile up
MaxSurplus == 1

ReadGuards == 1..NumReaders
WriteGuards == (NumReaders + 1)..(NumReaders + NumWriters)
Guards == ReadGuards \cup WriteGuards

\* range(5) of write_element
K == 5

VARIABLES
  read_cnt,        \* RWLock.read_cnt
  resource_lock,   \* RWLock.resource_lock: TRUE when the primitive lock is held
  resource_holder, \* the guard whose call took resource_lock (0 when free)
  read_cnt_lock,   \* RWLock.read_cnt_lock: TRUE when held
  locked,          \* guard -> its self.locked flag
  pc,              \* guard -> position of the call running on it ("idle": none)
  blocking,        \* guard -> the blocking argument of the running acquire (TRUE
                   \* again once the call has made its last use of it)
  keep,            \* guard -> the caller of the running acquire uses its return value
  result,          \* guard -> what the last call gave its caller: the value of an
                   \* acquire whose caller keeps it, or the error raised
  pre_cnt,         \* guard -> read_cnt as found when the call got read_cnt_lock
  scope,           \* guard -> position in a with-statement
  pending,         \* guard -> the error the with-body ended with ("none": normal)
  nrelease,        \* guard -> release() calls made by __exit__ for this scope
  write_elem,      \* demo: the global write_elem
  store,           \* demo: the global store
  cycle,           \* demo: writer -> loop index i of write_element
  dpc,             \* demo: writer -> line of write_element about to run
  tmp,             \* demo: writer -> value of write_elem loaded by "+= 1"
  res_acquires     \* instrumented primitive: successful resource_lock.acquire calls

coord == <<read_cnt, resource_lock, resource_holder, read_cnt_lock>>
guardv == <<locked, pc, blocking, keep, result, pre_cnt>>
scopev == <<scope, pending, nrelease>>
demov == <<write_elem, store, cycle, dpc, tmp, res_acquires>>
vars == <<coord, guardv, scopev, demov>>

\* ------------------------------------------------------- errors and results
\* threading.Lock().release() on an unlocked lock
PrimitiveReleaseError == [cls |-> "RuntimeError", msg |-> "release unlocked lock"]

RELEASE_ERR_CLS == PrimitiveReleaseError.cls
RELEASE_ERR_MSG == PrimitiveReleaseError.msg

NoResult == [kind |-> "none", val |-> "", msg |-> "", line |-> 0]
Return(v, ln) == [kind |-> "return", val |-> v, msg |-> "", line |-> ln]
Raise(c, m, ln) == [kind |-> "raise", val |-> c, msg |-> m, line |-> ln]

\* the value acquire returns, as far as its caller looks at it
Returned(g, v, ln) == IF keep[g] THEN Return(v, ln) ELSE NoResult

\* ---------------------------------------------------------------- Init
Init ==
  /\ read_cnt = 0
  /\ resource_lock = FALSE
  /\ resource_holder = 0
  /\ read_cnt_lock = FALSE
  /\ locked = [g \in Guards |-> FALSE]
  /\ pc = [g \in Guards |-> "idle"]
  /\ blocking = [g \in Guards |-> TRUE]
  /\ keep = [g \in Guards |-> FALSE]
  /\ result = [g \in Guards |-> NoResult]
  /\ pre_cnt = [g \in Guards |-> 0]
  /\ scope = [g \in Guards |-> "none"]
  /\ pending = [g \in Guards |-> "none"]
  /\ nrelease = [g \in Guards |-> 0]
  /\ write_elem = 0
  /\ store = <<>>
  /\ cycle = [g \in WriteGuards |-> 0]
  /\ dpc = [g \in WriteGuards |-> "154"]
  /\ tmp = [g \in WriteGuards |-> 0]
  /\ res_acquires = 0

\* ------------------------------------------------- _rlock.acquire (77-88)
\* the call: entry of acquire(blocking), about to run line 78; k: the caller
\* uses the returned value
rlock_acquire(g, b, k) ==
  /\ pc[g] = "idle"
  /\ pc' = [pc EXCEPT ![g] = "r78"]
  /\ blocking' = [blocking EXCEPT ![g] = b]
  /\ keep' = [keep EXCEPT ![g] = k]
  /\ result' = [result EXCEPT ![g] = NoResult]
  /\ UNCHANGED <<coord, locked, pre_cnt>>

\* variant of lines 78-79: blocking is not passed on, the call always waits
rlock_acquire_78_always_blocking(g) ==
  /\ pc[g] = "r78"
  /\ ~read_cnt_lock
  /\ read_cnt_lock' = TRUE
  /\ pre_cnt' = [pre_cnt EXCEPT ![g] = read_cnt]
  /\ pc' = [pc EXCEPT ![g] = "r80"]
  /\ UNCHANGED <<read_cnt, resource_lock, resource_holder, locked, result, blocking, keep>>

\* line 78-79: read_cnt_lock.acquire(blocking); return False on failure
rlock_acquire_78(g) ==
  /\ pc[g] = "r78"
  /\ IF ~read_cnt_lock
       THEN /\ read_cnt_lock' = TRUE
            /\ pre_cnt' = [pre_cnt EXCEPT ![g] = read_cnt]
            /\ pc' = [pc EXCEPT ![g] = "r80"]
            /\ UNCHANGED <<result, blocking, keep>>
       ELSE /\ ~blocking[g]
            /\ pc' = [pc EXCEPT ![g] = "idle"]
            /\ result' = [result EXCEPT ![g] = Returned(g, "False", 79)]
            /\ blocking' = [blocking EXCEPT ![g] = TRUE]
            /\ keep' = [keep EXCEPT ![g] = FALSE]
            /\ UNCHANGED <<read_cnt_lock, pre_cnt>>
  /\ UNCHANGED <<read_cnt, resource_lock, resource_holder, locked>>

\* variant of lines 80-81: every reader goes on to take resource_lock
rlock_acquire_80_always_first(g) ==
  /\ pc[g] = "r80"
  /\ read_cnt' = read_cnt + 1
  /\ pc' = [pc EXCEPT ![g] = "r82"]
  /\ UNCHANGED <<resource_lock, resource_holder, read_cnt_lock, locked,
                 blocking, keep, result, pre_cnt>>

\* variant of lines 80-81: a guard that is already held is not counted again
rlock_acquire_80_held_not_counted(g) ==
  /\ pc[g] = "r80"
  /\ read_cnt' = IF locked[g] THEN read_cnt ELSE read_cnt + 1
  /\ pc' = [pc EXCEPT ![g] = IF read_cnt' = 1 /\ ~locked[g] THEN "r82" ELSE "r86"]
  /\ blocking' = [blocking EXCEPT ![g] = IF pc'[g] = "r82" THEN blocking[g] ELSE TRUE]
  /\ UNCHANGED <<resource_lock, resource_holder, read_cnt_lock, locked,
                 keep, result, pre_cnt>>

\* line 80-81: read_cnt += 1; if 1 == read_cnt
rlock_acquire_80(g) ==
  /\ pc[g] = "r80"
  /\ read_cnt' = read_cnt + 1
  /\ pc' = [pc EXCEPT ![g] = IF read_cnt' = 1 THEN "r82" ELSE "r86"]
  /\ blocking' = [blocking EXCEPT ![g] = IF read_cnt' = 1 THEN blocking[g] ELSE TRUE]
  /\ UNCHANGED <<resource_lock, resource_holder, read_cnt_lock, locked,
                 keep, result, pre_cnt>>

\* variant of line 82: the first reader goes on without taking resource_lock
rlock_acquire_82_skip(g) ==
  /\ pc[g] = "r82"
  /\ pc' = [pc EXCEPT ![g] = "r86"]
  /\ UNCHANGED <<coord, locked, blocking, keep, result, pre_cnt>>

\* line 82: resource_lock.acquire(blocking)
rlock_acquire_82(g) ==
  /\ pc[g] = "r82"
  /\ IF ~resource_lock
       THEN /\ resource_lock' = TRUE
            /\ resource_holder' = g
            /\ pc' = [pc EXCEPT ![g] = "r86"]
       ELSE /\ ~blocking[g]
            /\ pc' = [pc EXCEPT ![g] = "r83"]
            /\ UNCHANGED <<resource_lock, resource_holder>>
  /\ blocking' = [blocking EXCEPT ![g] = TRUE]
  /\ UNCHANGED <<read_cnt, read_cnt_lock, locked, keep, result, pre_cnt>>

\* variant of line 83: the rollback forgets the decrement
rlock_acquire_83_no_decrement(g) ==
  /\ pc[g] = "r83"
  /\ pc' = [pc EXCEPT ![g] = "r84"]
  /\ UNCHANGED <<coord, locked, blocking, keep, result, pre_cnt>>

\* line 83: read_cnt -= 1 (rollback)
rlock_acquire_83(g) ==
  /\ pc[g] = "r83"
  /\ read_cnt' = read_cnt - 1
  /\ pc' = [pc EXCEPT ![g] = "r84"]
  /\ UNCHANGED <<resource_lock, resource_holder, read_cnt_lock, locked,
                 blocking, keep, result, pre_cnt>>

\* line 84-85: read_cnt_lock.release(); return False
rlock_acquire_84(g) ==
  /\ pc[g] = "r84"
  /\ pc' = [pc EXCEPT ![g] = "idle"]
  /\ pre_cnt' = [pre_cnt EXCEPT ![g] = 0]
  /\ keep' = [keep EXCEPT ![g] = FALSE]
  /\ IF read_cnt_lock
       THEN /\ read_cnt_lock' = FALSE
            /\ result' = [result EXCEPT ![g] = Returned(g, "False", 85)]
       ELSE /\ result' = [result EXCEPT ![g] =
                            Raise(PrimitiveReleaseError.cls, PrimitiveReleaseError.msg, 84)]
            /\ UNCHANGED read_cnt_lock
  /\ UNCHANGED <<read_cnt, resource_lock, resource_holder, locked, blocking>>

\* line 86: read_cnt_lock.release()
rlock_acquire_86(g) ==
  /\ pc[g] = "r86"
  /\ pre_cnt' = [pre_cnt EXCEPT ![g] = 0]
  /\ IF read_cnt_lock
       THEN /\ read_cnt_lock' = FALSE
            /\ pc' = [pc EXCEPT ![g] = "r87"]
            /\ UNCHANGED <<result, keep>>
       ELSE /\ pc' = [pc EXCEPT ![g] = "idle"]
            /\ result' = [result EXCEPT ![g] =
                            Raise(PrimitiveReleaseError.cls, PrimitiveReleaseError.msg, 86)]
            /\ keep' = [keep EXCEPT ![g] = FALSE]
            /\ UNCHANGED read_cnt_lock
  /\ UNCHANGED <<read_cnt, resource_lock, resource_holder, locked, blocking>>

\* line 87-88: self.locked = True; return True
rlock_acquire_87(g) ==
  /\ pc[g] = "r87"
  /\ locked' = [locked EXCEPT ![g] = TRUE]
  /\ pc' = [pc EXCEPT ![g] = "idle"]
  /\ result' = [result EXCEPT ![g] = Returned(g, "True", 88)]
  /\ keep' = [keep EXCEPT ![g] = FALSE]
  /\ UNCHANGED <<coord, blocking, pre_cnt>>

\* ------------------------------------------------- _rlock.release (90-98)
\* variant of lines 91-93: release without the check of self.locked
rlock_release_unchecked(g) ==
  /\ pc[g] = "idle"
  /\ locked' = [locked EXCEPT ![g] = FALSE]
  /\ pc' = [pc EXCEPT ![g] = "r94"]
  /\ result' = [result EXCEPT ![g] = NoResult]
  /\ UNCHANGED <<coord, blocking, keep, pre_cnt>>

\* the call and lines 91-93: raise when not locked, else self.locked = False
rlock_release(g) ==
  /\ pc[g] = "idle"
  /\ IF ~locked[g]
       THEN /\ result' = [result EXCEPT ![g] = Raise(RELEASE_ERR_CLS, RELEASE_ERR_MSG, 92)]
            /\ UNCHANGED <<locked, pc>>
       ELSE /\ locked' = [locked EXCEPT ![g] = FALSE]
            /\ pc' = [pc EXCEPT ![g] = "r94"]
            /\ result' = [result EXCEPT ![g] = NoResult]
  /\ UNCHANGED <<coord, blocking, keep, pre_cnt>>

\* line 94: read_cnt_lock.acquire() (blocking)
rlock_release_94(g) ==
  /\ pc[g] = "r94"
  /\ ~read_cnt_lock
  /\ read_cnt_lock' = TRUE
  /\ pc' = [pc EXCEPT ![g] = "r95"]
  /\ UNCHANGED <<read_cnt, resource_lock, resource_holder, locked, blocking, keep, result, pre_cnt>>

\* variant of lines 95-96: every leaving reader releases resource_lock
rlock_release_95_always_release(g) ==
  /\ pc[g] = "r95"
  /\ read_cnt' = read_cnt - 1
  /\ pc' = [pc EXCEPT ![g] = "r97"]
  /\ UNCHANGED <<resource_lock, resource_holder, read_cnt_lock, locked,
                 blocking, keep, result, pre_cnt>>

\* variant of lines 95-96: the last reader does not release resource_lock
rlock_release_95_keep_resource(g) ==
  /\ pc[g] = "r95"
  /\ read_cnt' = read_cnt - 1
  /\ pc' = [pc EXCEPT ![g] = "r98"]
  /\ UNCHANGED <<resource_lock, resource_holder, read_cnt_lock, locked,
                 blocking, keep, result, pre_cnt>>

\* line 95-96: read_cnt -= 1; if 0 == read_cnt
rlock_release_95(g) ==
  /\ pc[g] = "r95"
  /\ read_cnt' = read_cnt - 1
  /\ pc' = [pc EXCEPT ![g] = IF read_cnt' = 0 THEN "r97" ELSE "r98"]
  /\ UNCHANGED <<resource_lock, resource_holder, read_cnt_lock, locked,
                 blocking, keep, result, pre_cnt>>

\* line 97: resource_lock.release()
rlock_release_97(g) ==
  /\ pc[g] = "r97"
  /\ IF resource_lock
       THEN /\ resource_lock' = FALSE
            /\ resource_holder' = 0
            /\ pc' = [pc EXCEPT ![g] = "r98"]
            /\ UNCHANGED result
       ELSE /\ pc' = [pc EXCEPT ![g] = "idle"]
            /\ result' = [result EXCEPT ![g] =
                            Raise(PrimitiveReleaseError.cls, PrimitiveReleaseError.msg, 97)]
            /\ UNCHANGED <<resource_lock, resource_holder>>
  /\ UNCHANGED <<read_cnt, read_cnt_lock, locked, blocking, keep, pre_cnt>>

\* line 98: read_cnt_lock.release(); return None
rlock_release_98(g) ==
  /\ pc[g] = "r98"
  /\ pc' = [pc EXCEPT ![g] = "idle"]
  /\ IF read_cnt_lock
       THEN /\ read_cnt_lock' = FALSE
            /\ result' = [result EXCEPT ![g] = NoResult]
       ELSE /\ result' = [result EXCEPT ![g] =
                            Raise(PrimitiveReleaseError.cls, PrimitiveReleaseError.msg, 98)]
            /\ UNCHANGED read_cnt_lock
  /\ UNCHANGED <<read_cnt, resource_lock, resource_holder, locked, blocking, keep, pre_cnt>>

\* ----------------------------------------------- _wlock.acquire (108-112)
\* the call: entry of acquire(blocking), about to run line 109; k: the caller
\* uses the returned value
wlock_acquire(g, b, k) ==
  /\ pc[g] = "idle"
  /\ pc' = [pc EXCEPT ![g] = "w109"]
  /\ blocking' = [blocking EXCEPT ![g] = b]
  /\ keep' = [keep EXCEPT ![g] = k]
  /\ result' = [result EXCEPT ![g] = NoResult]
  /\ UNCHANGED <<coord, locked, pre_cnt>>

\* variant of lines 109-110: the outcome of resource_lock.acquire is ignored
wlock_acquire_109_unconditional(g) ==
  /\ pc[g] = "w109"
  /\ resource_lock' = TRUE
  /\ resource_holder' = g
  /\ pc' = [pc EXCEPT ![g] = "w111"]
  /\ UNCHANGED <<read_cnt, read_cnt_lock, locked, blocking, keep, result, pre_cnt>>

\* variant of lines 109-110: blocking is not passed on, the call always waits
wlock_acquire_109_always_blocking(g) ==
  /\ pc[g] = "w109"
  /\ ~resource_lock
  /\ resource_lock' = TRUE
  /\ resource_holder' = g
  /\ pc' = [pc EXCEPT ![g] = "w111"]
  /\ UNCHANGED <<read_cnt, read_cnt_lock, locked, blocking, keep, result, pre_cnt>>

\* line 109-110: resource_lock.acquire(blocking); return False on failure
wlock_acquire_109(g) ==
  /\ pc[g] = "w109"
  /\ IF ~resource_lock
       THEN /\ resource_lock' = TRUE
            /\ resource_holder' = g
            /\ pc' = [pc EXCEPT ![g] = "w111"]
            /\ UNCHANGED <<result, keep>>
       ELSE /\ ~blocking[g]
            /\ pc' = [pc EXCEPT ![g] = "idle"]
            /\ result' = [result EXCEPT ![g] = Returned(g, "False", 110)]
            /\ keep' = [keep EXCEPT ![g] = FALSE]
            /\ UNCHANGED <<resource_lock, resource_holder>>
  /\ blocking' = [blocking EXCEPT ![g] = TRUE]
  /\ UNCHANGED <<read_cnt, read_cnt_lock, locked, pre_cnt>>

\* variant of lines 111-112: the writer counts itself in read_cnt
wlock_acquire_111_counts(g) ==
  /\ pc[g] = "w111"
  /\ locked' = [locked EXCEPT ![g] = TRUE]
  /\ read_cnt' = read_cnt + 1
  /\ pc' = [pc EXCEPT ![g] = "idle"]
  /\ result' = [result EXCEPT ![g] = Returned(g, "True", 112)]
  /\ keep' = [keep EXCEPT ![g] = FALSE]
  /\ UNCHANGED <<resource_lock, resource_holder, read_cnt_lock, blocking, pre_cnt>>

\* line 111-112: self.locked = True; return True
wlock_acquire_111(g) ==
  /\ pc[g] = "w111"
  /\ locked' = [locked EXCEPT ![g] = TRUE]
  /\ pc' = [pc EXCEPT ![g] = "idle"]
  /\ result' = [result EXCEPT ![g] = Returned(g, "True", 112)]
  /\ keep' = [keep EXCEPT ![g] = FALSE]
  /\ UNCHANGED <<coord, blocking, pre_cnt>>

\* ----------------------------------------------- _wlock.release (114-118)
\* the call and lines 115-117: raise when not locked, else self.locked = False
wlock_release(g) ==
  /\ pc[g] = "idle"
  /\ IF ~locked[g]
       THEN /\ result' = [result EXCEPT ![g] = Raise(RELEASE_ERR_CLS, RELEASE_ERR_MSG, 116)]
            /\ UNCHANGED <<locked, pc>>
       ELSE /\ locked' = [locked EXCEPT ![g] = FALSE]
            /\ pc' = [pc EXCEPT ![g] = "w118"]
            /\ result' = [result EXCEPT ![g] = NoResult]
  /\ UNCHANGED <<coord, blocking, keep, pre_cnt>>

\* line 118: resource_lock.release(); return None
wlock_release_118(g) ==
  /\ pc[g] = "w118"
  /\ pc' = [pc EXCEPT ![g] = "idle"]
  /\ IF resource_lock
       THEN /\ resource_lock' = FALSE
            /\ resource_holder' = 0
            /\ result' = [result EXCEPT ![g] = NoResult]
       ELSE /\ result' = [result EXCEPT ![g] =
                            Raise(PrimitiveReleaseError.cls, PrimitiveReleaseError.msg, 118)]
            /\ UNCHANGED <<resource_lock, resource_holder>>
  /\ UNCHANGED <<read_cnt, read_cnt_lock, locked, blocking, keep, pre_cnt>>

\* ------------------------------------------------ guards of either kind
acquire(g, b, k) ==
  IF g \in ReadGuards THEN rlock_acquire(g, b, k) ELSE wlock_acquire(g, b, k)

release(g) == IF g \in ReadGuards THEN rlock_release(g) ELSE wlock_release(g)

\* ------------------------------------------------------ Lockable (36-45)
Errors == {"none", "ValueError"}

\* line 36-38: __enter__ calls self.acquire() (blocking defaults to True) and
\* does not look at what it returns
Lockable_enter(g) ==
  /\ scope[g] = "none"
  /\ acquire(g, TRUE, FALSE)
  /\ scope' = [scope EXCEPT ![g] = "enter"]
  /\ pending' = [pending EXCEPT ![g] = "none"]
  /\ nrelease' = [nrelease EXCEPT ![g] = 0]

\* line 39: acquire has returned, __enter__ returns False and the body starts;
\* an error raised by acquire leaves the with-statement without running the body
Lockable_enter_39(g) ==
  /\ scope[g] = "enter"
  /\ pc[g] = "idle"
  /\ scope' = [scope EXCEPT ![g] = IF result[g].kind = "raise" THEN "none" ELSE "body"]
  /\ UNCHANGED <<coord, guardv, pending, nrelease>>

\* variant of __exit__: line 44 is missing, release is never called
Lockable_exit_no_release(g, e) ==
  /\ scope[g] = "body"
  /\ scope' = [scope EXCEPT ![g] = "exit"]
  /\ pending' = [pending EXCEPT ![g] = e]
  /\ UNCHANGED <<coord, guardv, nrelease>>

\* the body ends, normally (e = "none") or with error e, and the
\* with-statement calls __exit__, whose line 44 calls self.release()
Lockable_exit(g, e) ==
  /\ scope[g] = "body"
  /\ release(g)
  /\ scope' = [scope EXCEPT ![g] = "exit"]
  /\ pending' = [pending EXCEPT ![g] = e]
  /\ nrelease' = [nrelease EXCEPT ![g] = nrelease[g] + 1]

\* line 45: release has returned, __exit__ returns False: the body's error is
\* not suppressed and leaves the with-statement; an error raised by release
\* itself has already replaced it
Lockable_exit_45(g) ==
  /\ scope[g] = "exit"
  /\ pc[g] = "idle"
  /\ scope' = [scope EXCEPT ![g] = "none"]
  /\ result' = [result EXCEPT ![g] =
                  IF result[g].kind = "raise" THEN result[g]
                  ELSE IF pending[g] # "none" THEN Raise(pending[g], "", 45)
                  ELSE Return("None", 45)]
  /\ pending' = [pending EXCEPT ![g] = "none"]
  /\ nrelease' = [nrelease EXCEPT ![g] = 0]
  /\ UNCHANGED <<coord, locked, pc, blocking, keep, pre_cnt>>

\* ------------------------------------------------ well-formed client use
\* A guard is driven by one thread: a new call starts only when none is
\* running on it, and acquire is not called on a guard that is already held.
\* Spec: blocking and non-blocking acquire calls whose caller keeps the returned
\* value, and release calls on guards held or not.
Next ==
  \E g \in Guards :
    \/ \E b \in BOOLEAN : ~locked[g] /\ acquire(g, b, TRUE) /\ UNCHANGED <<scopev, demov>>
    \/ release(g) /\ UNCHANGED <<scopev, demov>>
    \/ rlock_acquire_78(g) /\ UNCHANGED <<scopev, demov>>
    \/ rlock_acquire_80(g) /\ UNCHANGED <<scopev, demov>>
    \/ rlock_acquire_82(g) /\ UNCHANGED <<scopev, demov>>
    \/ rlock_acquire_83(g) /\ UNCHANGED <<scopev, demov>>
    \/ rlock_acquire_84(g) /\ UNCHANGED <<scopev, demov>>
    \/ rlock_acquire_86(g) /\ UNCHANGED <<scopev, demov>>
    \/ rlock_acquire_87(g) /\ UNCHANGED <<scopev, demov>>
    \/ rlock_release_94(g) /\ UNCHANGED <<scopev, demov>>
    \/ rlock_release_95(g) /\ UNCHANGED <<scopev, demov>>
    \/ rlock_release_97(g) /\ UNCHANGED <<scopev, demov>>
    \/ rlock_release_98(g) /\ UNCHANGED <<scopev, demov>>
    \/ wlock_acquire_109(g) /\ UNCHANGED <<scopev, demov>>
    \/ wlock_acquire_111(g) /\ UNCHANGED <<scopev, demov>>
    \/ wlock_release_118(g) /\ UNCHANGED <<scopev, demov>>

Spec == Init /\ [][Next]_vars

\* ------------------------------------------- injected primitive that fails
\* RWLock(lock_factory) (line 67) with a primitive whose acquire raises: the
\* call of resource_lock.acquire at line 82 or 109 raises OSError, which leaves
\* acquire at once (lines 77-88 and 108-112 hold no try/finally)
resource_lock_acquire_raises(g) ==
  /\ pc[g] \in {"r82", "w109"}
  /\ pc' = [pc EXCEPT ![g] = "idle"]
  /\ result' = [result EXCEPT ![g] = Raise("OSError", "", IF g \in ReadGuards THEN 82 ELSE 109)]
  /\ pre_cnt' = [pre_cnt EXCEPT ![g] = 0]
  /\ blocking' = [blocking EXCEPT ![g] = TRUE]
  /\ keep' = [keep EXCEPT ![g] = FALSE]
  /\ UNCHANGED <<coord, locked>>

NextInject ==
  \/ Next
  \/ \E g \in Guards : resource_lock_acquire_raises(g) /\ UNCHANGED <<scopev, demov>>

SpecInject == Init /\ [][NextInject]_vars

\* ------------------------------------------- readers only, one acquire each
\* Each ReadGuard is acquired at most once (by acquire() or by entering a
\* with-statement) and never released; no writer runs.  res_acquires counts the
\* calls of resource_lock.acquire that succeed.
Untouched(g) == pc[g] = "idle" /\ ~locked[g] /\ result[g] = NoResult /\ scope[g] = "none"

NextReaders ==
  \E g \in ReadGuards :
    \/ Untouched(g) /\ rlock_acquire(g, TRUE, TRUE) /\ UNCHANGED <<scopev, demov>>
    \/ Untouched(g) /\ Lockable_enter(g) /\ UNCHANGED demov
    \/ Lockable_enter_39(g) /\ UNCHANGED demov
    \/ rlock_acquire_78(g) /\ UNCHANGED <<scopev, demov>>
    \/ rlock_acquire_80(g) /\ UNCHANGED <<scopev, demov>>
    \/ /\ rlock_acquire_82(g)
       /\ res_acquires' = IF resource_lock' /\ ~resource_lock
                            THEN res_acquires + 1 ELSE res_acquires
       /\ UNCHANGED <<scopev, write_elem, store, cycle, dpc, tmp>>
    \/ rlock_acquire_86(g) /\ UNCHANGED <<scopev, demov>>
    \/ rlock_acquire_87(g) /\ UNCHANGED <<scopev, demov>>

SpecReaders == Init /\ [][NextReaders]_vars

\* ---------------------------------------------- write_element (150-158)
\* line 153-154: for i in range(5): w_lock.acquire()
write_element_154(w) ==
  /\ dpc[w] = "154"
  /\ cycle[w] < K
  /\ wlock_acquire(w, TRUE, FALSE)
  /\ dpc' = [dpc EXCEPT ![w] = "155"]
  /\ UNCHANGED <<write_elem, store, cycle, tmp, res_acquires>>

\* line 155-156: acquire has returned; store.append(write_elem)
write_element_155(w) ==
  /\ dpc[w] = "155"
  /\ pc[w] = "idle"
  /\ store' = Append(store, write_elem)
  /\ dpc' = [dpc EXCEPT ![w] = "157"]
  /\ UNCHANGED <<coord, guardv, write_elem, cycle, tmp, res_acquires>>

\* line 157, first half of write_elem += 1: load the global
write_element_157_load(w) ==
  /\ dpc[w] = "157"
  /\ tmp' = [tmp EXCEPT ![w] = write_elem]
  /\ dpc' = [dpc EXCEPT ![w] = "157s"]
  /\ UNCHANGED <<coord, guardv, write_elem, store, cycle, res_acquires>>

\* line 157, second half: store the sum
write_element_157_store(w) ==
  /\ dpc[w] = "157s"
  /\ write_elem' = tmp[w] + 1
  /\ tmp' = [tmp EXCEPT ![w] = 0]
  /\ dpc' = [dpc EXCEPT ![w] = "158"]
  /\ UNCHANGED <<coord, guardv, store, cycle, res_acquires>>

\* line 158: w_lock.release(); the loop goes on to its next index
write_element_158(w) ==
  /\ dpc[w] = "158"
  /\ wlock_release(w)
  /\ cycle' = [cycle EXCEPT ![w] = cycle[w] + 1]
  /\ dpc' = [dpc EXCEPT ![w] = "154"]
  /\ UNCHANGED <<write_elem, store, tmp, res_acquires>>

\* read_element (lines 141-144): acquire, look at store, release
read_element_141(r) == ~locked[r] /\ rlock_acquire(r, TRUE, FALSE)

read_element_144(r) == locked[r] /\ rlock_release(r)

NextDemo ==
  \/ \E w \in WriteGuards :
       \/ write_element_154(w) /\ UNCHANGED scopev
       \/ write_element_155(w) /\ UNCHANGED scopev
       \/ write_element_157_load(w) /\ UNCHANGED scopev
       \/ write_element_157_store(w) /\ UNCHANGED scopev
       \/ write_element_158(w) /\ UNCHANGED scopev
       \/ wlock_acquire_109(w) /\ UNCHANGED <<scopev, demov>>
       \/ wlock_acquire_111(w) /\ UNCHANGED <<scopev, demov>>
       \/ wlock_release_118(w) /\ UNCHANGED <<scopev, demov>>
  \/ \E r \in ReadGuards :
       \/ read_element_141(r) /\ UNCHANGED <<scopev, demov>>
       \/ read_element_144(r) /\ UNCHANGED <<scopev, demov>>
       \/ rlock_acquire_78(r) /\ UNCHANGED <<scopev, demov>>
       \/ rlock_acquire_80(r) /\ UNCHANGED <<scopev, demov>>
       \/ rlock_acquire_82(r) /\ UNCHANGED <<scopev, demov>>
       \/ rlock_acquire_86(r) /\ UNCHANGED <<scopev, demov>>
       \/ rlock_acquire_87(r) /\ UNCHANGED <<scopev, demov>>
       \/ rlock_release_94(r) /\ UNCHANGED <<scopev, demov>>
       \/ rlock_release_95(r) /\ UNCHANGED <<scopev, demov>>
       \/ rlock_release_97(r) /\ UNCHANGED <<scopev, demov>>
       \/ rlock_release_98(r) /\ UNCHANGED <<scopev, demov>>

SpecDemo == Init /\ [][NextDemo]_vars

\* ------------------------------------------------ with-statement clients
\* every guard is used through "with guard:" only
NextScope ==
  \E g \in Guards :
    \/ ~locked[g] /\ Lockable_enter(g) /\ UNCHANGED demov
    \/ Lockable_enter_39(g) /\ UNCHANGED demov
    \/ \E e \in Errors : Lockable_exit(g, e) /\ UNCHANGED demov
    \/ Lockable_exit_45(g) /\ UNCHANGED demov
    \/ rlock_acquire_78(g) /\ UNCHANGED <<scopev, demov>>
    \/ rlock_acquire_80(g) /\ UNCHANGED <<scopev, demov>>
    \/ rlock_acquire_82(g) /\ UNCHANGED <<scopev, demov>>
    \/ rlock_acquire_86(g) /\ UNCHANGED <<scopev, demov>>
    \/ rlock_acquire_87(g) /\ UNCHANGED <<scopev, demov>>
    \/ rlock_release_94(g) /\ UNCHANGED <<scopev, demov>>
    \/ rlock_release_95(g) /\ UNCHANGED <<scopev, demov>>
    \/ rlock_release_97(g) /\ UNCHANGED <<scopev, demov>>
    \/ rlock_release_98(g) /\ UNCHANGED <<scopev, demov>>
    \/ wlock_acquire_109(g) /\ UNCHANGED <<scopev, demov>>
    \/ wlock_acquire_111(g) /\ UNCHANGED <<scopev, demov>>
    \/ wlock_release_118(g) /\ UNCHANGED <<scopev, demov>>

SpecScope == Init /\ [][NextScope]_vars

\* ------------------------------------------------------------ properties
HeldReadGuards == {r \in ReadGuards : locked[r]}
HeldWriteGuards == {w \in WriteGuards : locked[w]}

\* writers that own resource_lock: from line 109 succeeding to line 118
OwningWriters == {w \in WriteGuards : locked[w] \/ pc[w] \in {"w111", "w118"}}

\* C1: mutual exclusion: no state has a held WriteGuard together with a held
\* ReadGuard or with a second held WriteGuard.
C1_MutualExclusion ==
  \A w \in HeldWriteGuards : HeldReadGuards = {} /\ HeldWriteGuards = {w}

\* a WriteGuard is held while a reader waits at line 82 and another writer at 109
C1_Witness ==
  \E w \in HeldWriteGuards :
    /\ \E r \in ReadGuards : pc[r] = "r82" /\ blocking[r]
    /\ \E w2 \in WriteGuards \ {w} : pc[w2] = "w109"

CoordinatorInvariant ==
  /\ read_cnt > 0 => resource_lock /\ resource_holder \in ReadGuards
  /\ read_cnt = 0 => \/ ~resource_lock
                     \/ /\ resource_holder \in WriteGuards
                        /\ OwningWriters = {resource_holder}

\* C2 as stated: the coordinator invariant in every reachable state, the
\* states between the steps of a reader acquire or release included.
C2_EveryState == CoordinatorInvariant

\* C2: the coordinator invariant holds in every reachable state in which
\* read_cnt_lock is free: read_cnt > 0 implies resource_lock is held for the
\* reader group, read_cnt = 0 implies it is free or held by exactly one writer.
C2_Invariant == ~read_cnt_lock => CoordinatorInvariant

\* two readers are in, read_cnt_lock is free, and a writer waits at line 109
C2_Witness ==
  /\ ~read_cnt_lock
  /\ read_cnt = 2
  /\ resource_holder \in ReadGuards
  /\ \E w \in WriteGuards : pc[w] = "w109" /\ blocking[w]

\* C3: a non-blocking reader acquire that became first reader and failed to get
\* resource_lock returns False with read_cnt back at its value before the call
\* (0), read_cnt_lock free and the guard's flag still false.
C3_Rollback ==
  [][\A g \in ReadGuards :
       (pc[g] = "r84" /\ pc'[g] # "r84") =>
         /\ result'[g] = Return("False", 85)
         /\ pc'[g] = "idle"
         /\ pre_cnt[g] = 0
         /\ read_cnt' = pre_cnt[g]
         /\ ~read_cnt_lock'
         /\ ~locked'[g]]_vars

\* a reader has returned False from line 85 while a writer holds resource_lock
C3_Witness ==
  \E g \in ReadGuards :
    /\ result[g] = Return("False", 85)
    /\ pc[g] = "idle"
    /\ resource_holder \in WriteGuards
    /\ read_cnt = 0

\* C5: release() on a guard that is not held raises the error of releasing an
\* unlocked plain lock and changes neither the coordinator nor any held flag.
C5_ReleaseWithoutAcquire ==
  [][\A g \in Guards :
       (pc[g] = "idle" /\ ~locked[g] /\ <<pc[g], result[g]>>' # <<pc[g], result[g]>>) =>
         \/ pc'[g] \in {"r78", "w109"}
         \/ /\ pc'[g] = "idle"
            /\ result'[g].kind = "raise"
            /\ result'[g].val = PrimitiveReleaseError.cls
            /\ result'[g].msg = PrimitiveReleaseError.msg
            /\ UNCHANGED <<coord, locked>>]_vars

\* a ReadGuard and a WriteGuard have each raised from release()
C5_Witness ==
  \E r \in ReadGuards, w \in WriteGuards :
    /\ result[r].kind = "raise" /\ result[r].line = 92
    /\ result[w].kind = "raise" /\ result[w].line = 116

\* C7: reader preference: a reader reaches resource_lock.acquire (line 82) only
\* when no ReadGuard is held, so an acquire made while a ReadGuard is held never
\* waits on resource_lock; a writer gets resource_lock only when no ReadGuard is
\* held, and readers give resource_lock up only at read_cnt = 0.
C7_ReaderPreference ==
  [][/\ \A g \in ReadGuards : pc'[g] = "r82" => HeldReadGuards' = {}
     /\ \A w \in WriteGuards :
          (pc[w] = "w109" /\ pc'[w] = "w111") => HeldReadGuards = {} /\ ~resource_lock
     /\ \A g \in ReadGuards :
          (resource_lock /\ ~resource_lock' /\ pc'[g] # pc[g]) => read_cnt = 0]_vars

\* both ReadGuards are held and a writer is blocked at line 109
C7_Witness ==
  /\ HeldReadGuards = ReadGuards
  /\ read_cnt = NumReaders
  /\ \E w \in WriteGuards : pc[w] = "w109" /\ blocking[w]

\* C8: with any ReadGuard held, WriteGuard.acquire(blocking=False) can run at
\* once, returns False and leaves read_cnt, both locks and its flag unchanged.
C8_NonBlockingWriter ==
  [][\A w \in WriteGuards :
       (pc[w] = "w109" /\ ~blocking[w] /\ HeldReadGuards # {}) =>
         /\ ENABLED wlock_acquire_109(w)
         /\ pc'[w] # pc[w] =>
              /\ pc'[w] = "idle"
              /\ result'[w] = Return("False", 110)
              /\ UNCHANGED <<read_cnt, resource_lock, resource_holder, read_cnt_lock>>
              /\ locked'[w] = locked[w]]_vars

\* a writer has returned False from line 110 while a ReadGuard is held
C8_Witness ==
  \E w \in WriteGuards :
    /\ result[w] = Return("False", 110)
    /\ ~locked[w]
    /\ HeldReadGuards # {}

\* C4: when resource_lock.acquire raises while a reader is becoming the first
\* reader, the error reaches the caller unchanged and, before it does,
\* read_cnt is back at its prior value and read_cnt_lock is released.
C4_RollbackOnRaise ==
  [][\A g \in ReadGuards :
       (pc[g] = "r82" /\ result'[g].kind = "raise") =>
         /\ result'[g].val = "OSError"
         /\ pc'[g] = "idle"
         /\ read_cnt' = pre_cnt[g]
         /\ ~read_cnt_lock']_vars

\* C6: N ReadGuards acquired concurrently with no writer: a reader is at line
\* 82 only as the one that took read_cnt from 0 to 1 and finds resource_lock
\* free, resource_lock.acquire succeeds at most once, and once the N calls
\* have returned all returned True, read_cnt = N and resource_lock was
\* acquired exactly once.
Started == {g \in ReadGuards : ~Untouched(g)}

C6_ConcurrentReaders ==
  /\ res_acquires <= 1
  /\ \A g \in ReadGuards :
       pc[g] = "r82" => pre_cnt[g] = 0 /\ read_cnt = 1 /\ ~resource_lock /\ res_acquires = 0
  /\ (Started # {} /\ \A g \in Started : pc[g] = "idle") =>
       /\ \A g \in Started :
            locked[g] /\ (scope[g] = "none" => result[g] = Return("True", 88))
       /\ read_cnt = Cardinality(Started)
       /\ resource_lock
       /\ resource_holder \in Started
       /\ res_acquires = 1

\* every ReadGuard has been acquired and all calls have returned
C6_Witness ==
  /\ Started = ReadGuards
  /\ \A g \in ReadGuards : pc[g] = "idle" /\ locked[g]
  /\ read_cnt = NumReaders
  /\ res_acquires = 1

\* increments of write_elem writer w has completed (line 157 done)
Increments(w) == cycle[w] + (IF dpc[w] = "158" THEN 1 ELSE 0)

RECURSIVE SumIncrements(_)
SumIncrements(S) ==
  IF S = {} THEN 0
  ELSE LET w == CHOOSE x \in S : TRUE IN Increments(w) + SumIncrements(S \ {w})

\* C9: no lost updates: the shared counter always equals the number of
\* increments the writers have completed, so when every writer has finished its
\* K cycles of write_element it equals NumWriters * K.
C9_NoLostUpdates ==
  /\ write_elem = SumIncrements(WriteGuards)
  /\ (\A w \in WriteGuards : cycle[w] = K /\ pc[w] = "idle") =>
       /\ write_elem = NumWriters * K
       /\ Len(store) = NumWriters * K
       /\ \A k \in 1..Len(store) : store[k] = k - 1

\* all writers are done, with a reader still inside its own acquire
C9_Witness ==
  /\ \A w \in WriteGuards : cycle[w] = K /\ pc[w] = "idle"
  /\ write_elem = NumWriters * K
  /\ \E r \in ReadGuards : locked[r]

\* C10: entering a with-statement starts a blocking acquire and the body runs
\* with the guard held; when the with-statement is left, release was called
\* exactly once, the guard is not held, and the body's error (if any) leaves
\* the statement unsuppressed; with every guard out of its scope the
\* coordinator is back in the state plain acquire/release pairs leave.
C10_ScopedUse ==
  [][/\ \A g \in Guards :
          /\ (scope[g] = "none" /\ scope'[g] = "enter") =>
               pc'[g] \in {"r78", "w109"} /\ blocking'[g]
          /\ scope'[g] = "body" => locked'[g] /\ pc'[g] = "idle"
          /\ (scope[g] = "exit" /\ scope'[g] = "none") =>
               /\ nrelease[g] = 1
               /\ ~locked'[g]
               /\ result'[g] = IF pending[g] = "none" THEN Return("None", 45)
                               ELSE Raise(pending[g], "", 45)
     /\ (\A g \in Guards : scope'[g] = "none" /\ pc'[g] = "idle") =>
          read_cnt' = 0 /\ ~resource_lock' /\ ~read_cnt_lock']_vars

\* a ReadGuard's scope was left by an error and a WriteGuard's normally
C10_Witness ==
  \E r \in ReadGuards, w \in WriteGuards :
    /\ scope[r] = "none" /\ result[r] = Raise("ValueError", "", 45)
    /\ scope[w] = "none" /\ result[w] = Return("None", 45)

\* ------------------------------------------------- locked() (72-75, 100-106, 120-121)
\* what calling a bool gives
NotCallable == [cls |-> "TypeError", msg |-> "'bool' object is not callable"]

\* names bound in a guard's instance dictionary by __init__ (lines 74-75 and
\* 105-106); a lookup of guard.<name> finds these before the methods of the class
InstanceAttributes == {"rw_lock", "locked"}

\* the method bodies: line 101 returns self.locked, line 121 returns False
rlock_locked_101(g) == IF locked[g] THEN "True" ELSE "False"
wlock_locked_121(g) == "False"

\* guard.locked() between two calls of the guard's thread: guard.locked is looked
\* up, which yields the bool stored by line 75 / 87 / 93 (106 / 111 / 117) since
\* it shadows the method of lines 100 / 120, and the bool is then called
rlock_locked(g) ==
  /\ g \in ReadGuards
  /\ pc[g] = "idle"
  /\ result' = [result EXCEPT ![g] =
                  IF "locked" \in InstanceAttributes
                    THEN Raise(NotCallable.cls, NotCallable.msg, 0)
                    ELSE Return(rlock_locked_101(g), 101)]
  /\ UNCHANGED <<coord, locked, pc, blocking, keep, pre_cnt>>

wlock_locked(g) ==
  /\ g \in WriteGuards
  /\ pc[g] = "idle"
  /\ result' = [result EXCEPT ![g] =
                  IF "locked" \in InstanceAttributes
                    THEN Raise(NotCallable.cls, NotCallable.msg, 0)
                    ELSE Return(wlock_locked_121(g), 121)]
  /\ UNCHANGED <<coord, locked, pc, blocking, keep, pre_cnt>>

\* clients that also ask their guards locked()
NextLocked ==
  \/ Next
  \/ \E g \in Guards : rlock_locked(g) /\ UNCHANGED <<scopev, demov>>
  \/ \E g \in Guards : wlock_locked(g) /\ UNCHANGED <<scopev, demov>>

SpecLocked == Init /\ [][NextLocked]_vars

\* C11: locked() on a ReadGuard or WriteGuard returns a boolean, true exactly
\* when the guard is held (its flag is set) and false otherwise.
C11_LockedReports ==
  [][\A g \in Guards :
       (rlock_locked(g) \/ wlock_locked(g)) =>
          /\ result'[g].kind = "return"
          /\ result'[g].val = (IF locked[g] THEN "True" ELSE "False")]_vars

\* ------------------------------------ a steady stream of readers, writers waiting
\* writers inside a blocking acquire that has not got resource_lock
WaitingWriters == {w \in WriteGuards : pc[w] = "w109" /\ blocking[w]}

\* a reader of the stream leaves only while another ReadGuard is held, or when no
\* writer waits: the readers overlap for as long as a writer waits
stream_release(r) ==
  /\ locked[r]
  /\ Cardinality(HeldReadGuards) >= 2 \/ WaitingWriters = {}
  /\ rlock_release(r)

\* the steps of the thread that drives guard g: cycles of acquire() (blocking, as
\* at lines 141 and 154) and release()
stream_thread(g) ==
  \/ ~locked[g] /\ acquire(g, TRUE, FALSE) /\ UNCHANGED <<scopev, demov>>
  \/ g \in ReadGuards /\ stream_release(g) /\ UNCHANGED <<scopev, demov>>
  \/ g \in WriteGuards /\ locked[g] /\ wlock_release(g) /\ UNCHANGED <<scopev, demov>>
  \/ rlock_acquire_78(g) /\ UNCHANGED <<scopev, demov>>
  \/ rlock_acquire_80(g) /\ UNCHANGED <<scopev, demov>>
  \/ rlock_acquire_82(g) /\ UNCHANGED <<scopev, demov>>
  \/ rlock_acquire_86(g) /\ UNCHANGED <<scopev, demov>>
  \/ rlock_acquire_87(g) /\ UNCHANGED <<scopev, demov>>
  \/ rlock_release_94(g) /\ UNCHANGED <<scopev, demov>>
  \/ rlock_release_95(g) /\ UNCHANGED <<scopev, demov>>
  \/ rlock_release_97(g) /\ UNCHANGED <<scopev, demov>>
  \/ rlock_release_98(g) /\ UNCHANGED <<scopev, demov>>
  \/ wlock_acquire_109(g) /\ UNCHANGED <<scopev, demov>>
  \/ wlock_acquire_111(g) /\ UNCHANGED <<scopev, demov>>
  \/ wlock_release_118(g) /\ UNCHANGED <<scopev, demov>>

NextStream == \E g \in Guards : stream_thread(g)

\* the scheduler is fair to every thread: a thread that can keep taking a step
\* takes one (threading.Lock gives a waiter no more than that)
SpecStream ==
  /\ Init
  /\ [][NextStream]_vars
  /\ \A g \in Guards : WF_vars(stream_thread(g))

\* C12: writer starvation: in the fair runs in which the readers overlap while a
\* writer waits, a writer blocked at line 109 beside a held ReadGuard stays
\* blocked there for ever with read_cnt >= 1, while reader acquires and reader
\* releases go on completing for ever.
C12_WriterStarvation ==
  /\ [][\A w \in WriteGuards :
          (pc[w] = "w109" /\ HeldReadGuards # {}) =>
             /\ pc'[w] = "w109"
             /\ HeldReadGuards' # {}
             /\ read_cnt >= 1 /\ read_cnt' >= 1
             /\ ~ENABLED wlock_acquire_109(w)]_vars
  /\ (WaitingWriters # {} /\ HeldReadGuards # {}) ~> (\E r \in ReadGuards : pc[r] = "r87")
  /\ (WaitingWriters # {} /\ HeldReadGuards # {}) ~> (\E r \in ReadGuards : pc[r] = "r98")

\* every writer waits at line 109 while one reader holds and another completes
\* its release
C12_Witness ==
  /\ WaitingWriters = WriteGuards
  /\ \E r \in ReadGuards : locked[r]
  /\ \E r \in ReadGuards : pc[r] = "r98" /\ read_cnt >= 1

\* ------------------------------- one thread with a ReadGuard and a WriteGuard
\* the thread that called both gen_rlock() and gen_wlock() on the RWLock (lines
\* 123-127); every other guard has a thread of its own
UpgradeRead == 1
UpgradeWrite == NumReaders + 1

SameThread(g, h) == g = h \/ {g, h} = {UpgradeRead, UpgradeWrite}

\* a thread runs one call at a time: it can start a call on g when no call is
\* running on a guard it drives
ThreadIdle(g) == \A h \in Guards : SameThread(g, h) => pc[h] = "idle"

NextUpgrade ==
  \E g \in Guards :
    \/ \E b \in BOOLEAN :
         ThreadIdle(g) /\ ~locked[g] /\ acquire(g, b, TRUE) /\ UNCHANGED <<scopev, demov>>
    \/ ThreadIdle(g) /\ locked[g] /\ release(g) /\ UNCHANGED <<scopev, demov>>
    \/ rlock_acquire_78(g) /\ UNCHANGED <<scopev, demov>>
    \/ rlock_acquire_80(g) /\ UNCHANGED <<scopev, demov>>
    \/ rlock_acquire_82(g) /\ UNCHANGED <<scopev, demov>>
    \/ rlock_acquire_83(g) /\ UNCHANGED <<scopev, demov>>
    \/ rlock_acquire_84(g) /\ UNCHANGED <<scopev, demov>>
    \/ rlock_acquire_86(g) /\ UNCHANGED <<scopev, demov>>
    \/ rlock_acquire_87(g) /\ UNCHANGED <<scopev, demov>>
    \/ rlock_release_94(g) /\ UNCHANGED <<scopev, demov>>
    \/ rlock_release_95(g) /\ UNCHANGED <<scopev, demov>>
    \/ rlock_release_97(g) /\ UNCHANGED <<scopev, demov>>
    \/ rlock_release_98(g) /\ UNCHANGED <<scopev, demov>>
    \/ wlock_acquire_109(g) /\ UNCHANGED <<scopev, demov>>
    \/ wlock_acquire_111(g) /\ UNCHANGED <<scopev, demov>>
    \/ wlock_release_118(g) /\ UNCHANGED <<scopev, demov>>

SpecUpgrade == Init /\ [][NextUpgrade]_vars

\* the thread holds its ReadGuard and is inside a blocking acquire of its WriteGuard
SelfDeadlocked ==
  /\ locked[UpgradeRead]
  /\ pc[UpgradeWrite] = "w109"
  /\ blocking[UpgradeWrite]

\* C13: a thread that holds a ReadGuard can call blocking acquire on its
\* WriteGuard (nothing rejects the call), and from then on the call stays at
\* line 109 whatever step any thread takes: the ReadGuard stays held, read_cnt
\* stays >= 1, resource_lock stays held and line 109 is never enabled.
C13_ReadThenWrite ==
  [][/\ (locked[UpgradeRead] /\ ThreadIdle(UpgradeRead) /\ ~locked[UpgradeWrite]) =>
          ENABLED (wlock_acquire(UpgradeWrite, TRUE, TRUE) /\ pc'[UpgradeWrite] = "w109")
     /\ SelfDeadlocked =>
          /\ SelfDeadlocked'
          /\ read_cnt >= 1 /\ read_cnt' >= 1
          /\ resource_lock /\ resource_lock'
          /\ resource_holder \in ReadGuards
          /\ ~ENABLED wlock_acquire_109(UpgradeWrite)]_vars

\* the thread is stuck and every other thread has come to rest or is blocked too
C13_Witness ==
  /\ SelfDeadlocked
  /\ \A g \in ReadGuards \ {UpgradeRead} : pc[g] = "idle" /\ ~locked[g] /\ result[g] # NoResult
  /\ \A w \in WriteGuards \ {UpgradeWrite} : pc[w] = "w109" /\ blocking[w]

\* ------------------------------------------------ frame of a reader acquire
\* the step the call running _rlock.acquire on g is about to take
rlock_acquire_step(g) ==
  \/ rlock_acquire_78(g)
  \/ rlock_acquire_80(g)
  \/ rlock_acquire_82(g)
  \/ rlock_acquire_83(g)
  \/ rlock_acquire_84(g)
  \/ rlock_acquire_86(g)
  \/ rlock_acquire_87(g)

\* g is inside acquire(blocking=False), or past the last line that can wait
NeverWaits(g) ==
  \/ pc[g] \in {"r78", "r80", "r82"} /\ ~blocking[g]
  \/ pc[g] \in {"r83", "r84", "r86", "r87"}

\* C14: ReadGuard.acquire(blocking=False) can always take its next step (it
\* never waits), and when it finds read_cnt_lock held at line 78 it returns
\* False with read_cnt, resource_lock, read_cnt_lock and its flag unchanged.
C14_NonBlockingReader ==
  [][\A g \in ReadGuards :
       /\ NeverWaits(g) => ENABLED rlock_acquire_step(g)
       /\ (pc[g] = "r78" /\ ~blocking[g] /\ read_cnt_lock /\ pc'[g] # pc[g]) =>
            /\ pc'[g] = "idle"
            /\ result'[g] = Return("False", 79)
            /\ UNCHANGED <<read_cnt, resource_lock, resource_holder, read_cnt_lock>>
            /\ locked'[g] = locked[g] /\ ~locked[g]]_vars

\* a reader has returned False from line 79 while another reader is inside the
\* read_cnt_lock section and a writer holds resource_lock
C14_Witness ==
  \E g \in ReadGuards :
    /\ result[g] = Return("False", 79) /\ pc[g] = "idle" /\ ~locked[g]
    /\ read_cnt_lock
    /\ \E h \in ReadGuards \ {g} : pc[h] = "r82"
    /\ resource_holder \in WriteGuards

\* ------------------------------------------------------ frame of the writer
\* what a call on guard g can change of the guard itself
local(g) == <<pc[g], result[g], locked[g], blocking[g], keep[g]>>

\* C15: no step of WriteGuard.acquire or WriteGuard.release, succeeding or
\* failing, changes read_cnt or read_cnt_lock; resource_lock changes only at
\* lines 109 and 118.
C15_WriterFrame ==
  [][\A w \in WriteGuards :
       local(w)' # local(w) =>
         /\ read_cnt' = read_cnt
         /\ read_cnt_lock' = read_cnt_lock
         /\ resource_lock' # resource_lock => pc[w] \in {"w109", "w118"}
         /\ \A g \in Guards \ {w} : local(g)' = local(g)]_vars

\* one writer's acquire has failed and another's release has raised while a
\* reader is inside the read_cnt_lock section with read_cnt = 2
C15_Witness ==
  \E w1, w2 \in WriteGuards :
    /\ w1 # w2
    /\ result[w1] = Return("False", 110)
    /\ result[w2].kind = "raise" /\ result[w2].line = 116
    /\ read_cnt_lock
    /\ read_cnt = 2

\* ------------------------------------ acquire called on a held ReadGuard
\* ReadGuards that account for one unit of read_cnt: held, or inside acquire
\* past the increment of line 80, or inside release before the decrement of
\* line 95
Counted == {g \in ReadGuards : locked[g] \/ pc[g] \in {"r82", "r83", "r86", "r87", "r94", "r95"}}

\* units of read_cnt no guard accounts for
Surplus == read_cnt - Cardinality(Counted)

\* held ReadGuards inside another acquire, before its increment of line 80
Recounting == {g \in ReadGuards : locked[g] /\ pc[g] \in {"r78", "r80"}}

\* clients that call acquire() on a ReadGuard whether it is held or not (lines
\* 77-88 do not look at self.locked); release is called on held guards.  A
\* ReadGuard that is not held is acquired as at line 141 (blocking, value
\* dropped); a writer drops the value of a blocking acquire (line 154) and keeps
\* that of a non-blocking one.
NextDouble ==
  \E g \in Guards :
    \/ g \in ReadGuards /\ ~locked[g] /\ rlock_acquire(g, TRUE, FALSE) /\ UNCHANGED <<scopev, demov>>
    \/ \E b \in BOOLEAN :
         g \in WriteGuards /\ ~locked[g] /\ wlock_acquire(g, b, ~b) /\ UNCHANGED <<scopev, demov>>
    \/ \E b \in BOOLEAN :
         /\ g \in ReadGuards /\ locked[g]
         /\ Surplus + Cardinality(Recounting) < MaxSurplus
         /\ rlock_acquire(g, b, TRUE)
         /\ UNCHANGED <<scopev, demov>>
    \/ locked[g] /\ release(g) /\ UNCHANGED <<scopev, demov>>
    \/ rlock_acquire_78(g) /\ UNCHANGED <<scopev, demov>>
    \/ rlock_acquire_80(g) /\ UNCHANGED <<scopev, demov>>
    \/ rlock_acquire_82(g) /\ UNCHANGED <<scopev, demov>>
    \/ rlock_acquire_86(g) /\ UNCHANGED <<scopev, demov>>
    \/ rlock_acquire_87(g) /\ UNCHANGED <<scopev, demov>>
    \/ rlock_release_94(g) /\ UNCHANGED <<scopev, demov>>
    \/ rlock_release_95(g) /\ UNCHANGED <<scopev, demov>>
    \/ rlock_release_97(g) /\ UNCHANGED <<scopev, demov>>
    \/ rlock_release_98(g) /\ UNCHANGED <<scopev, demov>>
    \/ wlock_acquire_109(g) /\ UNCHANGED <<scopev, demov>>
    \/ wlock_acquire_111(g) /\ UNCHANGED <<scopev, demov>>
    \/ wlock_release_118(g) /\ UNCHANGED <<scopev, demov>>

SpecDouble == Init /\ [][NextDouble]_vars

\* C16: an acquire of a held ReadGuard that gets past line 78 never goes to
\* line 82 and returns True with read_cnt larger than the number of held
\* ReadGuards; the surplus never shrinks, and while there is one read_cnt stays
\* >= 1 and resource_lock stays held for the readers (also with no guard held),
\* so no writer gets past line 109: its acquire returns False or waits.
C16_DoubleAcquire ==
  [][/\ \A g \in ReadGuards :
          (locked[g] /\ pc[g] \in {"r80", "r86", "r87"}) =>
             /\ pc'[g] \notin {"r82", "r83", "r84"}
             /\ (pc[g] = "r87" /\ pc'[g] = "idle") =>
                  /\ result'[g] = Return("True", 88)
                  /\ read_cnt' > Cardinality(HeldReadGuards')
     /\ Surplus' >= Surplus
     /\ Surplus >= 1 =>
          /\ read_cnt >= 1
          /\ resource_lock /\ resource_holder \in ReadGuards
          /\ \A w \in WriteGuards :
               /\ ~locked[w]
               /\ pc[w] = "w109" => pc'[w] = "w109" \/ result'[w] = Return("False", 110)
               /\ (pc[w] = "w109" /\ blocking[w]) => ~ENABLED wlock_acquire_109(w)]_vars

\* after a double acquire and the one release no guard is held and no reader is
\* in a call, yet read_cnt >= 1 and resource_lock is held: one writer has been
\* refused and another waits
C16_Witness ==
  /\ \A g \in Guards : ~locked[g]
  /\ \A g \in ReadGuards : pc[g] = "idle"
  /\ read_cnt >= 1
  /\ resource_lock
  /\ \E w1, w2 \in WriteGuards :
       /\ pc[w1] = "w109" /\ blocking[w1]
       /\ pc[w2] = "idle" /\ result[w2] = Return("False", 110)

\* ------------------------------------------- well-formed use, fair scheduling
\* the line the call running on guard g is about to execute
line_step(g) ==
  \/ rlock_acquire_78(g)
  \/ rlock_acquire_80(g)
  \/ rlock_acquire_82(g)
  \/ rlock_acquire_86(g)
  \/ rlock_acquire_87(g)
  \/ rlock_release_94(g)
  \/ rlock_release_95(g)
  \/ rlock_release_97(g)
  \/ rlock_release_98(g)
  \/ wlock_acquire_109(g)
  \/ wlock_acquire_111(g)
  \/ wlock_release_118(g)

\* each guard is driven by one thread that alternates acquire() (blocking, as at
\* lines 141 and 154) and release()
NextFair ==
  \E g \in Guards :
    \/ ~locked[g] /\ acquire(g, TRUE, FALSE) /\ UNCHANGED <<scopev, demov>>
    \/ locked[g] /\ release(g) /\ UNCHANGED <<scopev, demov>>
    \/ line_step(g) /\ UNCHANGED <<scopev, demov>>

\* the lines at which a call waits for a primitive lock (78, 82, 94, 109)
lock_step(g) ==
  \/ rlock_acquire_78(g)
  \/ rlock_acquire_82(g)
  \/ rlock_release_94(g)
  \/ wlock_acquire_109(g)

\* fair scheduling: a thread inside a call that can keep executing its line
\* executes it, and a thread waiting for a primitive lock that is free again
\* and again gets it; a client need not call acquire or release at all
SpecFair ==
  /\ Init
  /\ [][NextFair]_vars
  /\ \A g \in Guards : WF_vars(line_step(g) /\ UNCHANGED <<scopev, demov>>)
  /\ \A g \in Guards : SF_vars(lock_step(g) /\ UNCHANGED <<scopev, demov>>)

\* readers inside the read_cnt_lock section: the holder of read_cnt_lock
InSection == {h \in ReadGuards : pc[h] \in {"r80", "r82", "r86", "r95", "r97", "r98"}}

Leaving == {g \in ReadGuards : pc[g] = "r94"}

\* ReadGuards inside acquire that have released read_cnt_lock (line 86) and not
\* yet set the flag (line 87)
Arriving == {g \in ReadGuards : pc[g] = "r87"}

\* C18 as stated: read_cnt is never negative and, whenever read_cnt_lock is
\* free, equals the number of held ReadGuards plus the number of ReadGuards
\* inside release between clearing the flag and the decrement.
C18_AsStated ==
  /\ read_cnt >= 0
  /\ ~read_cnt_lock => read_cnt = Cardinality(HeldReadGuards) + Cardinality(Leaving)

\* C18: read_cnt is never negative and, whenever read_cnt_lock is free, equals
\* the number of held ReadGuards, plus those inside release between clearing
\* the flag and the decrement, plus those inside acquire between the release of
\* read_cnt_lock (line 86) and the setting of the flag (line 87).
C18_Accounting ==
  /\ read_cnt >= 0
  /\ ~read_cnt_lock =>
       read_cnt = Cardinality(HeldReadGuards) + Cardinality(Leaving) + Cardinality(Arriving)

\* read_cnt_lock is free while one reader is between lines 86 and 87 and
\* another between lines 93 and 94
C18_Witness ==
  /\ ~read_cnt_lock
  /\ Arriving # {}
  /\ Leaving # {}
  /\ read_cnt = 2

\* --------------------------------------------------------- deadlock freedom
\* g is inside a blocking primitive acquire that cannot return now
Blocked(g) ==
  \/ pc[g] \in {"r78", "r94"} /\ read_cnt_lock
  \/ pc[g] \in {"r82", "w109"} /\ blocking[g] /\ resource_lock

\* the next step of the cycle the thread of h is in: the next line of its
\* call, or release() of the guard it holds
cycle_step(h) ==
  \/ line_step(h)
  \/ locked[h] /\ release(h)

\* the guards on whose behalf resource_lock is held: the writer from line 109
\* to line 118, or every reader counted in read_cnt up to line 97
ResourceOwners ==
  IF resource_holder \in WriteGuards THEN {resource_holder}
  ELSE {h \in ReadGuards : locked[h] \/ pc[h] \in {"r86", "r87", "r94", "r95", "r97"}}

\* the guards whose calls will release the lock g waits for
HoldersOf(g) == IF pc[g] \in {"r78", "r94"} THEN InSection ELSE ResourceOwners

Free(h) == ~Blocked(h) /\ ENABLED cycle_step(h)

\* C19: under complete blocking acquire/release cycles, whenever a thread waits
\* for read_cnt_lock or resource_lock, another thread on whose steps the
\* release of that lock depends can take its next step: a holder of the lock,
\* or, when that holder waits itself, a holder of the lock it waits for.
C19_DeadlockFree ==
  \A g \in Guards :
    Blocked(g) =>
      \E h \in HoldersOf(g) \ {g} :
        \/ Free(h)
        \/ Blocked(h) /\ \E k \in HoldersOf(h) \ {g, h} : Free(k)

\* a reader waits for read_cnt_lock, whose holder waits at line 82 for
\* resource_lock, held by a writer for which another writer waits too
C19_Witness ==
  /\ \E g \in ReadGuards : pc[g] = "r78" /\ read_cnt_lock
  /\ \E h \in ReadGuards : pc[h] = "r82" /\ resource_lock
  /\ \E w \in WriteGuards : locked[w]
  /\ \E w \in WriteGuards : pc[w] = "w109"

\* ---------------------------------------------- releases of the primitives
\* lines at which a guard operation releases a primitive lock
ReleaseLines == {84, 86, 97, 98, 118}

\* C20: every resource_lock.release() (lines 97 and 118) and every
\* read_cnt_lock.release() (lines 84, 86, 98) is reached with that primitive
\* held (resource_lock for the readers at line 97, by the writer itself at line
\* 118), and no guard operation has raised from one of these lines.
C20_ValidReleases ==
  /\ \A g \in ReadGuards :
       /\ pc[g] = "r97" => resource_lock /\ resource_holder \in ReadGuards
       /\ pc[g] \in {"r84", "r86", "r98"} => read_cnt_lock
  /\ \A w \in WriteGuards : pc[w] = "w118" => resource_lock /\ resource_holder = w
  /\ \A g \in Guards : ~(result[g].kind = "raise" /\ result[g].line \in ReleaseLines)

\* the last reader is about to release resource_lock at line 97, which another
\* reader's acquire took at line 82, while a writer waits for it
C20_Witness ==
  \E g \in ReadGuards :
    /\ pc[g] = "r97"
    /\ resource_lock
    /\ resource_holder \in ReadGuards \ {g}
    /\ \E w \in WriteGuards : pc[w] = "w109" /\ blocking[w]

====
